---- MODULE Spec2Model ----
(***************************************************************************)
(* The "Release Nightly" workflow (.github/workflows/release_nightly.yml   *)
(* of ruffle) as a state machine: one action per workflow step, job        *)
(* scheduling by `needs:` / `if:` as GitHub Actions evaluates them.        *)
(*                                                                         *)
(* Runner semantics relied upon:                                           *)
(*  - a job without a status function in `if:` runs only when every job   *)
(*    it needs succeeded; otherwise it is skipped;                         *)
(*  - a matrix job counts as succeeded only when every matrix leg did;     *)
(*  - a failed step ends its job with failure, later steps are skipped;    *)
(*  - `shell: bash` runs the script with `bash -eo pipefail`;              *)
(*  - a run concludes with failure iff some job failed.                    *)
(***************************************************************************)
EXTENDS Integers, Sequences, FiniteSets, TLC

\* ------------------------------------------------------------------ bounds
\* workflow runs in a row
MaxRuns == 2
\* seconds the wall clock may advance during one run
MaxElapsed == 1
\* the day (days since 1970-01-01) on which runs are triggered
StartDay == 18870
\* largest upstream age, in whole days, drawn for the gate
MaxAgeDays == 100

\* ------------------------------------------------------- program constants
SecondsPerDay == 86400

ManualEvents == {"repository_dispatch", "workflow_dispatch"}

\* the `on:` block: the events that can start this workflow
TriggerEvents == {"schedule", "workflow_dispatch"}

BuildNames ==
  {"linux-x86_64", "macos-x86_64", "macos-aarch64", "windows-x86_32", "windows-x86_64"}

Matrix ==
  [n \in BuildNames |->
     CASE n = "linux-x86_64"   -> [os |-> "ubuntu-latest",  target |-> ""]
       [] n = "macos-x86_64"   -> [os |-> "macos-latest",   target |-> "x86_64-apple-darwin"]
       [] n = "macos-aarch64"  -> [os |-> "macos-latest",   target |-> "aarch64-apple-darwin"]
       [] n = "windows-x86_32" -> [os |-> "windows-latest", target |-> "i686-pc-windows-msvc"]
       [] n = "windows-x86_64" -> [os |-> "windows-latest", target |-> "x86_64-pc-windows-msvc"]]

\* runs-on: ${{ matrix.os }} and the runner.os it yields
RunnerOs(n) ==
  CASE Matrix[n].os = "ubuntu-latest"  -> "Linux"
    [] Matrix[n].os = "macos-latest"   -> "macOS"
    [] Matrix[n].os = "windows-latest" -> "Windows"

\* the characters of matrix.build_name, for startsWith()
BuildNameChars(n) ==
  CASE n = "linux-x86_64"   -> <<"l","i","n","u","x","-","x","8","6","_","6","4">>
    [] n = "macos-x86_64"   -> <<"m","a","c","o","s","-","x","8","6","_","6","4">>
    [] n = "macos-aarch64"  -> <<"m","a","c","o","s","-","a","a","r","c","h","6","4">>
    [] n = "windows-x86_32" -> <<"w","i","n","d","o","w","s","-","x","8","6","_","3","2">>
    [] n = "windows-x86_64" -> <<"w","i","n","d","o","w","s","-","x","8","6","_","6","4">>

ReleaseJob == "create-nightly-release"
MacJob == "build-mac-universal-binary"
WebJob == "build-web"
AurJob == "publish-aur-package"
Jobs == {ReleaseJob, MacJob, WebJob, AurJob} \cup BuildNames

Terminal == {"success", "failure", "skipped"}

\* ---------------------------------------------------------- text helpers
DigitChar == <<"0", "1", "2", "3", "4", "5", "6", "7", "8", "9">>

\* code points of the characters `[[ a < b ]]` can meet here (C locale order)
CharCode(c) ==
  CASE c = "-" -> 45
    [] c = "0" -> 48 [] c = "1" -> 49 [] c = "2" -> 50 [] c = "3" -> 51
    [] c = "4" -> 52 [] c = "5" -> 53 [] c = "6" -> 54 [] c = "7" -> 55
    [] c = "8" -> 56 [] c = "9" -> 57

RECURSIVE NatToStr(_)
NatToStr(n) ==
  IF n < 10 THEN <<DigitChar[n + 1]>>
  ELSE NatToStr(n \div 10) \o <<DigitChar[(n % 10) + 1]>>

\* how the shell expands an integer variable
IntToStr(n) == IF n < 0 THEN <<"-">> \o NatToStr(-n) ELSE NatToStr(n)

\* zero-padded field of a date format (YYYY, MM, DD)
RECURSIVE Pad(_, _)
Pad(s, width) == IF Len(s) >= width THEN s ELSE Pad(<<"0">> \o s, width)

\* the string comparison of bash's `[[ a < b ]]`
RECURSIVE StrLess(_, _)
StrLess(a, b) ==
  IF b = <<>> THEN FALSE
  ELSE IF a = <<>> THEN TRUE
  ELSE IF CharCode(Head(a)) < CharCode(Head(b)) THEN TRUE
  ELSE IF CharCode(Head(a)) > CharCode(Head(b)) THEN FALSE
  ELSE StrLess(Tail(a), Tail(b))

\* startsWith(s, p) of the workflow expression language
StartsWith(s, p) == Len(s) >= Len(p) /\ SubSeq(s, 1, Len(p)) = p

\* bash $(( a / b )): division truncating toward zero
TruncDiv(a, b) == IF a >= 0 THEN a \div b ELSE -((-a) \div b)

\* proleptic Gregorian date of a day number (days since 1970-01-01)
CivilFromDays(z0) ==
  LET z   == z0 + 719468
      era == z \div 146097
      doe == z - era * 146097
      yoe == (doe - doe \div 1460 + doe \div 36524 - doe \div 146096) \div 365
      doy == doe - (365 * yoe + yoe \div 4 - yoe \div 100)
      mp  == (5 * doy + 2) \div 153
      d   == doy - (153 * mp + 2) \div 5 + 1
      m   == IF mp < 10 THEN mp + 3 ELSE mp - 9
      y   == yoe + era * 400 + (IF m <= 2 THEN 1 ELSE 0)
  IN  [y |-> y, m |-> m, d |-> d]

\* get-current-time with format YYYY<sep>MM<sep>DD (UTC)
FormatDate(t, sep) ==
  LET c == CivilFromDays(t \div SecondsPerDay)
  IN  Pad(NatToStr(c.y), 4) \o <<sep>> \o Pad(NatToStr(c.m), 2) \o <<sep>>
        \o Pad(NatToStr(c.d), 2)

\* the calendar day a rendering denotes: its digits without the separators
DayOf(s) == SelectSeq(s, LAMBDA c : c \notin {"-", "_", "."})

NoDate == <<>>

NoUrl == <<>>


\* ------------------------------------------------------------------ state
VARIABLES
  event_name,      \* github.event_name of the run
  upstream,        \* what the commits API lookup of the run returns
  now,             \* the wall clock (epoch seconds, UTC)
  activity,        \* shell variables of the "Activity check" script when it ends
  GHA_REPO_ALIVE,  \* the variable the script appends to $GITHUB_ENV
  dates,           \* formattedTime outputs of the get-current-time steps
  upload_url,      \* steps.create_release.outputs.upload_url
  status,          \* result of every job (matrix legs by build_name)
  pc,              \* the step each job is at
  releases,        \* release records of the repository
  assets,          \* assets uploaded to release records
  artifacts,       \* workflow artifacts of the run
  mirrors,         \* ruffle-rs/demo and ruffle-rs/js-docs: remote and checked-out history
  aur,             \* commits submitted to the package index
  run,             \* the number of the workflow run and the time it was triggered
  preexisting      \* the history of each mirror before the first run

vars == <<event_name, upstream, now, activity, GHA_REPO_ALIVE, dates, upload_url,
          status, pc, releases, assets, artifacts, mirrors, aur, run, preexisting>>

\* cron '0 0 * * *' fires at midnight UTC; a manual dispatch may come at any
\* time of day, the last second of the day included
StartTime(e) ==
  IF e = "schedule" THEN StartDay * SecondsPerDay
  ELSE StartDay * SecondsPerDay + SecondsPerDay - 1

\* answers of the commits API: a commit with a committer date of some age, a
\* failed transfer (curl exits non-zero), a body without a parseable date (jq
\* fails or prints "null"), or an empty body (curl exits 0, jq prints nothing)
Lookups(ages) ==
  [kind : {"ok"}, age : ages]
    \cup {[kind |-> "curl_error", age |-> 0], [kind |-> "bad_date", age |-> 0],
          [kind |-> "empty_body", age |-> 0]}

RunAges == {0, 2 * SecondsPerDay, 30 * SecondsPerDay}

GateAges ==
  {-SecondsPerDay - 1, -1, 0, 1, SecondsPerDay - 2, SecondsPerDay - 1, SecondsPerDay,
   2 * SecondsPerDay - 1, 2 * SecondsPerDay, 9 * SecondsPerDay, 10 * SecondsPerDay,
   30 * SecondsPerDay, MaxAgeDays * SecondsPerDay - 1, MaxAgeDays * SecondsPerDay}

FirstStep(j) ==
  CASE j = ReleaseJob -> "activity"
    [] j = MacJob -> "download_aarch64"
    [] j = WebJob -> "build"
    [] j = AurJob -> "dashes"
    [] OTHER -> "cargo"

PreviousNightly == <<"Nightly build", <<"previous">>>>

\* commits of a mirror that no nightly run made
BaseCommit == <<"Initial commit", <<>>>>
ManualCommit == <<"Manual update", <<>>>>

\* a mirror as earlier runs left it: older history, then the last nightly commit
InitialMirror == <<BaseCommit, PreviousNightly>>

\* the job-local state a fresh run starts with
FreshRun ==
  /\ activity' = [ran |-> FALSE, days |-> 0, alive |-> 0]
  /\ GHA_REPO_ALIVE' = ""
  /\ dates' = [dashes |-> NoDate, underscores |-> NoDate,
               aur_dashes |-> NoDate, aur_dots |-> NoDate]
  /\ upload_url' = NoUrl
  /\ status' = [j \in Jobs |-> "pending"]
  /\ pc' = [j \in Jobs |-> FirstStep(j)]
  /\ artifacts' = {}
  /\ mirrors' = [r \in DOMAIN mirrors |-> [mirrors[r] EXCEPT !.local = <<>>]]
  /\ aur' = [aur EXCEPT !.pkgver = <<"@VERSION@">>]

\* histories a mirror can have before a run: with or without an earlier nightly
\* commit at its tip
MirrorHistories == {<<BaseCommit, ManualCommit>>, InitialMirror}

InitFrom(ages, histories) ==
  /\ event_name \in TriggerEvents
  /\ run = [number |-> 1, started |-> StartTime(event_name)]
  /\ \E h \in histories : preexisting = [r \in {"demo", "js-docs"} |-> h]
  /\ mirrors = [r \in {"demo", "js-docs"} |-> [remote |-> preexisting[r], local |-> <<>>]]
  /\ \E l \in Lookups(ages) :
       upstream = [kind |-> l.kind, timestamp |-> StartTime(event_name) - l.age]
  /\ now = StartTime(event_name)
  /\ activity = [ran |-> FALSE, days |-> 0, alive |-> 0]
  /\ GHA_REPO_ALIVE = ""
  /\ dates = [dashes |-> NoDate, underscores |-> NoDate,
              aur_dashes |-> NoDate, aur_dots |-> NoDate]
  /\ upload_url = NoUrl
  /\ status = [j \in Jobs |-> "pending"]
  /\ pc = [j \in Jobs |-> FirstStep(j)]
  /\ releases = {}
  /\ assets = {}
  /\ artifacts = {}
  /\ aur = [pkgver |-> <<"@VERSION@">>, commits |-> <<>>]

InitWith(ages) == InitFrom(ages, {InitialMirror})

Init == InitWith(RunAges)

\* a run of a repository whose mirrors may not carry a nightly commit yet
InitRuns == InitFrom({0}, MirrorHistories)

InitGate == InitWith(GateAges)

\* ---------------------------------------------------------- step plumbing
\* a step reads the clock: time has passed since the previous reading
ClockReadings == {t \in now .. now + MaxElapsed : t <= run.started + MaxElapsed}

StepTo(j, next) ==
  /\ status' = [status EXCEPT ![j] = "running"]
  /\ pc' = [pc EXCEPT ![j] = next]

Finish(j, result) ==
  /\ status' = [status EXCEPT ![j] = result]
  /\ pc' = [pc EXCEPT ![j] = "done"]

AtStep(j, step) == status[j] \in {"pending", "running"} /\ pc[j] = step

\* -------------------------------------------------- create-nightly-release
DaysAtMostOne(d) == d <= 1

\* [[ $days < 1 ]]
DaysLessThanOne(d) == StrLess(IntToStr(d), <<"1">>)

AliveOnRepositoryDispatchOnly(event, d) ==
  IF event = "repository_dispatch" THEN 1
  ELSE IF DaysLessThanOne(d) THEN 1
  ELSE 0

\* the value of $alive the script computes
Alive(event, d) ==
  IF event \in ManualEvents THEN 1
  ELSE IF DaysLessThanOne(d) THEN 1
  ELSE 0

\* timestamp=$(date --utc -d "$date" +%s): the committer date, but an empty
\* $date is read by `date -d` as 00:00 of the current day
Timestamp(u, t) ==
  IF u.kind = "empty_body" THEN (t \div SecondsPerDay) * SecondsPerDay ELSE u.timestamp

\* $(( ( $(date --utc +%s) - $timestamp ) / 86400 ))
DaysSince(t, timestamp) == TruncDiv(t - timestamp, SecondsPerDay)

\* bash -eo pipefail: a failing curl pipeline or a failing `date -d` ends the
\* script at that line, before $alive is looked at
LookupAborts(u) == u.kind \in {"curl_error", "bad_date"}

ActivityCheck ==
  /\ AtStep(ReleaseJob, "activity")
  /\ \/ /\ LookupAborts(upstream)
        /\ Finish(ReleaseJob, "failure")
        /\ UNCHANGED <<now, activity, GHA_REPO_ALIVE>>
     \/ /\ ~LookupAborts(upstream)
        /\ \E t \in ClockReadings :
             LET d == DaysSince(t, Timestamp(upstream, t))
                 a == Alive(event_name, d)
             IN  /\ now' = t
                 /\ activity' = [ran |-> TRUE, days |-> d, alive |-> a]
                 /\ GHA_REPO_ALIVE' = IF a = 1 THEN "true" ELSE GHA_REPO_ALIVE
        /\ StepTo(ReleaseJob, "dashes")
  /\ UNCHANGED <<run, preexisting, event_name, upstream, dates, upload_url, releases, assets, artifacts,
                 mirrors, aur>>

GetCurrentTimeDashes ==
  /\ AtStep(ReleaseJob, "dashes")
  /\ \E t \in ClockReadings :
       /\ now' = t
       /\ dates' = [dates EXCEPT !.dashes = FormatDate(t, "-")]
  /\ StepTo(ReleaseJob, "underscores")
  /\ UNCHANGED <<run, preexisting, event_name, upstream, activity, GHA_REPO_ALIVE, upload_url, releases,
                 assets, artifacts, mirrors, aur>>

GetCurrentTimeUnderscores ==
  /\ AtStep(ReleaseJob, "underscores")
  /\ \E t \in ClockReadings :
       /\ now' = t
       /\ dates' = [dates EXCEPT !.underscores = FormatDate(t, "_")]
  /\ StepTo(ReleaseJob, "create")
  /\ UNCHANGED <<run, preexisting, event_name, upstream, activity, GHA_REPO_ALIVE, upload_url, releases,
                 assets, artifacts, mirrors, aur>>

\* `if: env.GHA_REPO_ALIVE == 'true'` of the "Create release" step
CreateReleaseIf == GHA_REPO_ALIVE = "true"

NightlyRelease ==
  [tag_name |-> <<"nightly-", dates.dashes>>,
   release_name |-> <<"Nightly ", dates.dashes>>,
   prerelease |-> TRUE]

\* create-release is refused when the repository has a release of that tag
TagExists(tag) == \E r \in releases : r.tag_name = tag

\* the last step of the job: run or skipped by its `if:`, it ends the job
CreateRelease ==
  /\ AtStep(ReleaseJob, "create")
  /\ \/ /\ CreateReleaseIf
        /\ ~TagExists(NightlyRelease.tag_name)
        /\ releases' = releases \cup {NightlyRelease}
        /\ upload_url' = NightlyRelease.tag_name
        /\ Finish(ReleaseJob, "success")
     \/ /\ CreateReleaseIf
        /\ Finish(ReleaseJob, "failure")
        /\ UNCHANGED <<releases, upload_url>>
     \/ /\ ~CreateReleaseIf
        /\ Finish(ReleaseJob, "success")
        /\ UNCHANGED <<releases, upload_url>>
  /\ UNCHANGED <<run, preexisting, event_name, upstream, now, activity, GHA_REPO_ALIVE, dates, assets,
                 artifacts, mirrors, aur>>

\* jobs.create-nightly-release.outputs
Outputs ==
  [activity_check |-> GHA_REPO_ALIVE,
   date |-> dates.underscores,
   upload_url |-> upload_url,
   package_prefix |-> <<"ruffle-nightly-", dates.underscores>>]

\* a job without a status function in its `if:` starts only when every job it
\* needs has succeeded, and is skipped once they are all done otherwise
NeedsSucceeded(js) == \A j \in js : status[j] = "success"

NeedsDoneOnlyOnSuccess(js) == NeedsSucceeded(js)

NeedsDone(js) == \A j \in js : status[j] \in Terminal

Others == <<run, preexisting, event_name, upstream, now, activity, GHA_REPO_ALIVE, dates, upload_url,
            releases>>

\* upload-release-asset: the store refuses a name the release already holds
AssetNames(url) == {a.name : a \in {x \in assets : x.upload_url = url}}

CanUpload(url, name) == url # NoUrl /\ name \notin AssetNames(url)

Uploaded(url, name, type) ==
  assets' = assets \cup {[upload_url |-> url, name |-> name, content_type |-> type]}

\* ------------------------------------------------------------------ build
BuildUnconditional == TRUE

\* `if: needs.create-nightly-release.outputs.activity_check == 'true'`
BuildIf == Outputs.activity_check = "true"

BuildWithoutNeeds == BuildIf

BuildMayStart == NeedsSucceeded({ReleaseJob}) /\ BuildIf

\* env.PACKAGE_FILE of a matrix leg
PackageFile(n) ==
  [prefix |-> Outputs.package_prefix,
   platform |-> n,
   ext |-> IF StartsWith(BuildNameChars(n), <<"w", "i", "n">>) THEN "zip" ELSE "tar.gz"]

ContentTypeAlwaysZip(file) == "application/zip"

\* asset_content_type of "Upload package"
ContentType(file) == IF file.ext = "tar.gz" THEN "application/gzip" ELSE "application/zip"

UploadPackageAlways(n) == TRUE

\* `if: runner.os != 'macOS'` of "Upload package"
UploadPackageIf(n) == RunnerOs(n) # "macOS"

\* `if: runner.os == 'macOS'` of "Upload macOS build artifact"
UploadArtifactIf(n) == RunnerOs(n) = "macOS"

FailFastDefault == TRUE

\* strategy.fail-fast
FailFast == FALSE

\* with fail-fast the runner cancels the other legs once one leg has failed
NotCancelled(n) == ~(FailFast /\ \E m \in BuildNames \ {n} : status[m] = "failure")

\* checkout, toolchain, cargo build and packaging of one leg
CargoBuild(n) ==
  /\ AtStep(n, "cargo")
  /\ BuildMayStart
  /\ NotCancelled(n)
  /\ \/ StepTo(n, "upload")
     \/ Finish(n, "failure")
  /\ UNCHANGED <<Others, assets, artifacts, mirrors, aur>>

UploadPackage(n) ==
  /\ AtStep(n, "upload")
  /\ UploadPackageIf(n)
  /\ NotCancelled(n)
  /\ \/ /\ CanUpload(Outputs.upload_url, PackageFile(n))
        /\ Uploaded(Outputs.upload_url, PackageFile(n), ContentType(PackageFile(n)))
        /\ Finish(n, "success")
     \/ /\ Finish(n, "failure")
        /\ UNCHANGED assets
  /\ UNCHANGED <<Others, artifacts, mirrors, aur>>

UploadMacOSBuildArtifact(n) ==
  /\ AtStep(n, "upload")
  /\ UploadArtifactIf(n)
  /\ NotCancelled(n)
  /\ \/ /\ artifacts' = artifacts \cup {n}
        /\ Finish(n, "success")
     \/ /\ Finish(n, "failure")
        /\ UNCHANGED artifacts
  /\ UNCHANGED <<Others, assets, mirrors, aur>>

\* the whole matrix is skipped when the job's condition does not hold
SkipBuild ==
  /\ NeedsDone({ReleaseJob})
  /\ ~BuildMayStart
  /\ \A n \in BuildNames : status[n] = "pending"
  /\ status' = [j \in Jobs |-> IF j \in BuildNames THEN "skipped" ELSE status[j]]
  /\ pc' = [j \in Jobs |-> IF j \in BuildNames THEN "done" ELSE pc[j]]
  /\ UNCHANGED <<Others, assets, artifacts, mirrors, aur>>

\* ------------------------------------------------ build-mac-universal-binary
MacNeedsReleaseOnly == {ReleaseJob}

\* needs: [create-nightly-release, build]
MacNeeds == {ReleaseJob} \cup BuildNames

MacMayStart == NeedsSucceeded(MacNeeds)

MacPackageFile ==
  [prefix |-> Outputs.package_prefix, platform |-> "macos-universal", ext |-> "tar.gz"]

DownloadArtifact(step, name, next) ==
  /\ AtStep(MacJob, step)
  /\ MacMayStart
  /\ \/ /\ name \in artifacts
        /\ StepTo(MacJob, next)
     \/ Finish(MacJob, "failure")
  /\ UNCHANGED <<Others, assets, artifacts, mirrors, aur>>

DownloadAarch64Binary == DownloadArtifact("download_aarch64", "macos-aarch64", "download_x86_64")

DownloadX8664Binary == DownloadArtifact("download_x86_64", "macos-x86_64", "lipo")

\* lipo -create, chmod, tar
MakeUniversalBinary ==
  /\ AtStep(MacJob, "lipo")
  /\ \/ StepTo(MacJob, "upload")
     \/ Finish(MacJob, "failure")
  /\ UNCHANGED <<Others, assets, artifacts, mirrors, aur>>

MacUploadPackage ==
  /\ AtStep(MacJob, "upload")
  /\ \/ /\ CanUpload(Outputs.upload_url, MacPackageFile)
        /\ Uploaded(Outputs.upload_url, MacPackageFile, "application/gzip")
        /\ Finish(MacJob, "success")
     \/ /\ Finish(MacJob, "failure")
        /\ UNCHANGED assets
  /\ UNCHANGED <<Others, artifacts, mirrors, aur>>

SkipMac ==
  /\ status[MacJob] = "pending"
  /\ NeedsDone(MacNeeds)
  /\ ~MacMayStart
  /\ Finish(MacJob, "skipped")
  /\ UNCHANGED <<Others, assets, artifacts, mirrors, aur>>

\* ---------------------------------------------------------------- build-web
WebIf == Outputs.activity_check = "true"

WebMayStartAfterBuilds == NeedsSucceeded({ReleaseJob} \cup BuildNames) /\ WebIf

WebMayStart == NeedsSucceeded({ReleaseJob}) /\ WebIf

WebAssetWithoutSuffix(platform, ext) ==
  [prefix |-> Outputs.package_prefix, platform |-> "web", ext |-> ext]

WebAsset(platform, ext) ==
  [prefix |-> Outputs.package_prefix, platform |-> platform, ext |-> ext]

\* checkout, toolchains, npm build and docs, zip of the selfhosted package
BuildWeb ==
  /\ AtStep(WebJob, "build")
  /\ WebMayStart
  /\ \/ StepTo(WebJob, "upload_selfhosted")
     \/ Finish(WebJob, "failure")
  /\ UNCHANGED <<Others, assets, artifacts, mirrors, aur>>

WebUpload(step, file, type, next) ==
  /\ AtStep(WebJob, step)
  /\ \/ /\ CanUpload(Outputs.upload_url, file)
        /\ Uploaded(Outputs.upload_url, file, type)
        /\ StepTo(WebJob, next)
     \/ /\ Finish(WebJob, "failure")
        /\ UNCHANGED assets
  /\ UNCHANGED <<Others, artifacts, mirrors, aur>>

UploadSelfhosted ==
  WebUpload("upload_selfhosted", WebAsset("web-selfhosted", "zip"), "application/zip",
            "upload_extension")

UploadGenericExtension ==
  WebUpload("upload_extension", WebAsset("web-extension", "zip"), "application/zip",
            "upload_firefox")

FirefoxUploadLeftOut ==
  /\ AtStep(WebJob, "upload_firefox")
  /\ StepTo(WebJob, "clone_demo")
  /\ UNCHANGED <<Others, assets, artifacts, mirrors, aur>>

UploadFirefoxExtension ==
  WebUpload("upload_firefox", WebAsset("web-extension-firefox", "xpi"),
            "application/x-xpinstall", "clone_demo")

CommitOnTop(history, message) == Append(history, message)

\* git commit --amend -m "Nightly build <date>": the tip commit is replaced
Amend(history, message) == SubSeq(history, 1, Len(history) - 1) \o <<message>>

NightlyMessage == <<"Nightly build", Outputs.date>>

\* actions/checkout of the mirror with fetch-depth: 0
CloneMirror(r, step, next) ==
  /\ AtStep(WebJob, step)
  /\ \/ /\ mirrors' = [mirrors EXCEPT ![r].local = mirrors[r].remote]
        /\ StepTo(WebJob, next)
     \/ /\ Finish(WebJob, "failure")
        /\ UNCHANGED mirrors
  /\ UNCHANGED <<Others, assets, artifacts, aur>>

UpdateMirror(r, step, next) ==
  /\ AtStep(WebJob, step)
  /\ mirrors' = [mirrors EXCEPT ![r].local = Amend(mirrors[r].local, NightlyMessage)]
  /\ StepTo(WebJob, next)
  /\ UNCHANGED <<Others, assets, artifacts, aur>>

\* github-push-action with force: true
PushMirror(r, step) ==
  /\ AtStep(WebJob, step)
  /\ \/ /\ mirrors' = [mirrors EXCEPT ![r].remote = mirrors[r].local]
        /\ IF step = "push_docs" THEN Finish(WebJob, "success")
           ELSE StepTo(WebJob, "clone_docs")
     \/ /\ Finish(WebJob, "failure")
        /\ UNCHANGED mirrors
  /\ UNCHANGED <<Others, assets, artifacts, aur>>

CloneWebDemo == CloneMirror("demo", "clone_demo", "update_demo")

UpdateWebDemo == UpdateMirror("demo", "update_demo", "push_demo")

PushWebDemo == PushMirror("demo", "push_demo")

CloneJSDocs == CloneMirror("js-docs", "clone_docs", "update_docs")

UpdateJSDocs == UpdateMirror("js-docs", "update_docs", "push_docs")

PushJSDocs == PushMirror("js-docs", "push_docs")

SkipWeb ==
  /\ status[WebJob] = "pending"
  /\ NeedsDone({ReleaseJob})
  /\ ~WebMayStart
  /\ Finish(WebJob, "skipped")
  /\ UNCHANGED <<Others, assets, artifacts, mirrors, aur>>

\* ------------------------------------------------------ publish-aur-package
AurNeedsLinuxOnly == {"linux-x86_64"}

AurNeedsMergerToo == BuildNames \cup {MacJob}

\* needs: build
AurNeeds == BuildNames

AurMayStart == NeedsSucceeded(AurNeeds)

AurGetCurrentTimeDashes ==
  /\ AtStep(AurJob, "dashes")
  /\ AurMayStart
  /\ \E t \in ClockReadings :
       /\ now' = t
       /\ dates' = [dates EXCEPT !.aur_dashes = FormatDate(t, "-")]
  /\ StepTo(AurJob, "dots")
  /\ UNCHANGED <<run, preexisting, event_name, upstream, activity, GHA_REPO_ALIVE, upload_url, releases,
                 assets, artifacts, mirrors, aur>>

AurGetCurrentTimeDots ==
  /\ AtStep(AurJob, "dots")
  /\ \E t \in ClockReadings :
       /\ now' = t
       /\ dates' = [dates EXCEPT !.aur_dots = FormatDate(t, ".")]
  /\ StepTo(AurJob, "pkgbuild")
  /\ UNCHANGED <<run, preexisting, event_name, upstream, activity, GHA_REPO_ALIVE, upload_url, releases,
                 assets, artifacts, mirrors, aur>>

\* sed -e "s/@VERSION@/<dot date>/" -i ./PKGBUILD
UpdatePKGBUILD ==
  /\ AtStep(AurJob, "pkgbuild")
  /\ aur' = [aur EXCEPT !.pkgver = dates.aur_dots]
  /\ StepTo(AurJob, "publish")
  /\ UNCHANGED <<Others, assets, artifacts, mirrors>>

PublishAurPackage ==
  /\ AtStep(AurJob, "publish")
  /\ \/ /\ aur' = [aur EXCEPT !.commits = Append(@,
                     [pkgver |-> aur.pkgver,
                      commit_message |-> <<"Update to Nightly ", dates.aur_dashes>>])]
        /\ Finish(AurJob, "success")
     \/ /\ Finish(AurJob, "failure")
        /\ UNCHANGED aur
  /\ UNCHANGED <<Others, assets, artifacts, mirrors>>

SkipAur ==
  /\ status[AurJob] = "pending"
  /\ NeedsDone(AurNeeds)
  /\ ~AurMayStart
  /\ Finish(AurJob, "skipped")
  /\ UNCHANGED <<Others, assets, artifacts, mirrors, aur>>

\* ------------------------------------------------------------ the workflow
RunDone == \A j \in Jobs : status[j] \in Terminal

\* the conclusion of the run: failure iff some job failed
Conclusion == IF \E j \in Jobs : status[j] = "failure" THEN "failure" ELSE "success"

NextGate ==
  \/ ActivityCheck
  \/ GetCurrentTimeDashes
  \/ GetCurrentTimeUnderscores
  \/ CreateRelease

SpecGate == InitGate /\ [][NextGate]_vars


Next ==
  \/ ActivityCheck
  \/ GetCurrentTimeDashes
  \/ GetCurrentTimeUnderscores
  \/ CreateRelease
  \/ \E n \in BuildNames : CargoBuild(n)
  \/ \E n \in BuildNames : UploadPackage(n)
  \/ \E n \in BuildNames : UploadMacOSBuildArtifact(n)
  \/ SkipBuild
  \/ DownloadAarch64Binary
  \/ DownloadX8664Binary
  \/ MakeUniversalBinary
  \/ MacUploadPackage
  \/ SkipMac
  \/ BuildWeb
  \/ UploadSelfhosted
  \/ UploadGenericExtension
  \/ UploadFirefoxExtension
  \/ CloneWebDemo
  \/ UpdateWebDemo
  \/ PushWebDemo
  \/ CloneJSDocs
  \/ UpdateJSDocs
  \/ PushJSDocs
  \/ SkipWeb
  \/ AurGetCurrentTimeDashes
  \/ AurGetCurrentTimeDots
  \/ UpdatePKGBUILD
  \/ PublishAurPackage
  \/ SkipAur

Spec == Init /\ [][Next]_vars

\* ---------------------------------------------------------- runs in a row
\* the run before is over as far as the release and the mirrors go: the
\* release job and the web job have a result and no other job is in a step
RunSettled ==
  /\ status[ReleaseJob] \in Terminal
  /\ status[WebJob] \in Terminal
  /\ \A j \in Jobs : status[j] # "running"

\* the workflow is triggered again: by an operator's dispatch on the same day
\* ("rerun"), or by the cron schedule at the next midnight ("nightly"); jobs
\* of the run before that have not started are cancelled
NewRun(kind) ==
  /\ run.number < MaxRuns
  /\ RunSettled
  /\ LET t == IF kind = "nightly" THEN (now \div SecondsPerDay + 1) * SecondsPerDay ELSE now
     IN  /\ now' = t
         /\ run' = [number |-> run.number + 1,
                    started |-> IF kind = "nightly" THEN t ELSE run.started]
         /\ upstream' = [upstream EXCEPT !.timestamp = @ + (t - now)]
  /\ event_name' = IF kind = "nightly" THEN "schedule" ELSE "workflow_dispatch"
  /\ FreshRun
  /\ UNCHANGED <<releases, assets, preexisting>>

\* the release job and the web job over several runs; the build legs, the
\* merger and the package-index job write neither releases nor mirrors
NextRuns ==
  \/ ActivityCheck
  \/ GetCurrentTimeDashes
  \/ GetCurrentTimeUnderscores
  \/ CreateRelease
  \/ BuildWeb
  \/ UploadSelfhosted
  \/ UploadGenericExtension
  \/ UploadFirefoxExtension
  \/ CloneWebDemo
  \/ UpdateWebDemo
  \/ PushWebDemo
  \/ CloneJSDocs
  \/ UpdateJSDocs
  \/ PushJSDocs
  \/ SkipWeb
  \/ \E kind \in {"rerun", "nightly"} : NewRun(kind)

SpecRuns == InitRuns /\ [][NextRuns]_vars


\* ------------------------------------------------------------- properties
Started(j) == status[j] \in {"running", "success", "failure"}

Downstream == Jobs \ {ReleaseJob}

NothingBuilt == \A j \in Downstream : ~Started(j)

NothingPublished ==
  /\ releases = {}
  /\ assets = {}
  /\ artifacts = {}
  /\ \A r \in DOMAIN mirrors : mirrors[r].remote = InitialMirror
  /\ aur.commits = <<>>

\* the gate ran on a scheduled trigger and found the latest change a day old or older
NotAliveScheduled == event_name = "schedule" /\ activity.ran /\ activity.days >= 1

\* C1: a scheduled run whose gate finds the upstream change one or more whole
\* days old creates no release, runs no build, web build or merge, uploads and
\* publishes nothing, and the run ends with success.
C1_StaleScheduledRunIsNoOp ==
  NotAliveScheduled =>
    /\ NothingPublished
    /\ NothingBuilt
    /\ \A j \in Jobs : status[j] # "failure"
    /\ RunDone => Conclusion = "success"

C1_Witness == NotAliveScheduled /\ RunDone /\ \A j \in Downstream : status[j] = "skipped"

\* C2: on a scheduled trigger with a successful lookup, the gate publishes
\* alive exactly when floor((now - lastChangeTimestamp) / 86400) < 1.
C2_ScheduledAliveIffUnderOneDay ==
  [][(event_name = "schedule" /\ upstream.kind = "ok" /\ pc[ReleaseJob] = "activity"
        /\ pc'[ReleaseJob] = "dashes")
      => ((GHA_REPO_ALIVE' = "true")
            <=> ((now' - upstream.timestamp) \div SecondsPerDay < 1))]_vars

C2_Witness ==
  /\ event_name = "schedule"
  /\ upstream.kind = "ok"
  /\ activity.ran
  /\ activity.days >= 10
  /\ GHA_REPO_ALIVE = ""
  /\ pc[ReleaseJob] = "done"

\* the pipeline of an alive run: the release step is not skipped, no build leg
\* and no web build is skipped, and each job may start as soon as the jobs it
\* needs have succeeded
ProceedsAsActive ==
  /\ activity.ran => GHA_REPO_ALIVE = "true"
  /\ status[ReleaseJob] = "success" =>
       /\ \E r \in releases : r.tag_name = upload_url
       /\ \A n \in BuildNames :
            /\ status[n] # "skipped"
            /\ status[n] = "pending" => ENABLED CargoBuild(n)
       /\ status[WebJob] # "skipped"
       /\ status[WebJob] = "pending" => ENABLED BuildWeb
       /\ (status[MacJob] = "pending" /\ \A n \in BuildNames : status[n] = "success")
            => ENABLED DownloadAarch64Binary
       /\ (status[AurJob] = "pending" /\ \A n \in BuildNames : status[n] = "success")
            => ENABLED AurGetCurrentTimeDashes

\* C3: on a manual trigger the gate is alive whatever the age of the upstream
\* change, and the run proceeds through release, builds, merge and publishers
\* as a scheduled run with a fresh upstream change does.
C3_ManualRunProceedsAsFresh ==
  /\ \A e \in ManualEvents, d \in -2 .. MaxAgeDays : Alive(e, d) = 1
  /\ (event_name \in ManualEvents /\ upstream.kind = "ok") => ProceedsAsActive
  /\ (event_name = "schedule" /\ activity.ran /\ activity.days < 1) => ProceedsAsActive

C3_Witness ==
  /\ event_name = "workflow_dispatch"
  /\ activity.days = 30
  /\ RunDone
  /\ \A j \in Jobs : status[j] = "success"

\* C4: a manual run cannot be gated off: once the gate step is over the alive
\* flag is published and the builds are not skipped, also when the upstream
\* lookup fails.
C4_ManualNeverGatedOff ==
  (event_name \in ManualEvents /\ pc[ReleaseJob] # "activity") =>
    /\ GHA_REPO_ALIVE = "true"
    /\ status[ReleaseJob] = "success" =>
         (releases # {} /\ \A n \in BuildNames : status[n] # "skipped")

\* the lookup did not deliver the date of an upstream commit
LookupFailed == upstream.kind # "ok"

\* C5: on a scheduled trigger a failed upstream lookup never publishes the
\* alive flag, creates no release, and starts no build, upload or publish.
C5_ScheduledLookupFailureFailsClosed ==
  (event_name = "schedule" /\ LookupFailed) =>
    /\ GHA_REPO_ALIVE # "true"
    /\ NothingPublished
    /\ NothingBuilt

\* C6: every date rendering used within one run denotes the same calendar day.
C6_OneCalendarDayPerRun ==
  \A a, b \in DOMAIN dates :
    (dates[a] # NoDate /\ dates[b] # NoDate) => DayOf(dates[a]) = DayOf(dates[b])

\* C7: the release job has succeeded before any build leg, the web build, the
\* merger or a publisher starts, and every release-asset upload, attempted or
\* done, targets a release record created earlier in the run.
C7_ReleasePrecedesEverything ==
  /\ \A j \in Downstream : Started(j) => status[ReleaseJob] = "success"
  /\ \A j \in Downstream :
       (status[j] = "running" /\ pc[j] \in {"upload", "upload_selfhosted",
                                            "upload_extension", "upload_firefox"})
         => \E r \in releases : r.tag_name = Outputs.upload_url
  /\ \A a \in assets : \E r \in releases : r.tag_name = a.upload_url

C7_Witness ==
  /\ \E n \in BuildNames : status[n] = "running" /\ pc[n] = "upload"
  /\ pc[WebJob] = "upload_extension"
  /\ Cardinality(assets) >= 2

MacBinaries == {"macos-x86_64", "macos-aarch64"}

\* C8: the merger starts only after all five build legs have completed, and
\* never while one or both macOS raw binaries are missing.
C8_MergerIsBarrier ==
  Started(MacJob) =>
    /\ \A n \in BuildNames : status[n] \in Terminal
    /\ MacBinaries \subseteq artifacts

C8_Witness == status[MacJob] = "running" /\ pc[MacJob] = "lipo"

\* C9: when one build leg fails, no other leg is cancelled or kept from
\* starting: each can take its next step, and every non-macOS leg that
\* succeeded has uploaded its own release asset.
C9_BuildLegsFailureIsolated ==
  \A m \in BuildNames :
    status[m] = "failure" =>
      \A n \in BuildNames \ {m} :
        /\ status[n] # "skipped"
        /\ status[n] \in {"pending", "running"} =>
             ENABLED (CargoBuild(n) \/ UploadPackage(n) \/ UploadMacOSBuildArtifact(n))
        /\ (status[n] = "success" /\ RunnerOs(n) # "macOS") =>
             \E a \in assets : a.name = PackageFile(n)

C9_Witness ==
  /\ status["linux-x86_64"] = "failure"
  /\ status["windows-x86_64"] = "success"
  /\ status["windows-x86_32"] = "success"
  /\ status["macos-x86_64"] = "success"
  /\ status["macos-aarch64"] = "success"

NonMergedPlatforms == BuildNames \ MacBinaries

\* C10: when a platform not reserved for merging fails while both macOS legs
\* succeed, the merger still runs (it is not skipped) and, once it has
\* succeeded, the macos-universal asset is uploaded.
C10_MergerSurvivesOtherPlatformFailure ==
  ((\E n \in NonMergedPlatforms : status[n] = "failure")
     /\ \A n \in MacBinaries : status[n] = "success")
    => status[MacJob] # "skipped"


\* C11: when a macOS leg has failed, the merge stage ends as a failure and not
\* as a skip, and no macos-universal asset is uploaded.
C11_MissingBinaryIsHardFailure ==
  ((\E n \in MacBinaries : status[n] = "failure") /\ status[MacJob] \in Terminal)
    => /\ status[MacJob] = "failure"
       /\ \A a \in assets : a.name # MacPackageFile

WebUploaded(platform, ext) == \E a \in assets : a.name = WebAsset(platform, ext)

\* the web job ended in failure at "Upload generic extension"
WebExtensionUploadFailed ==
  /\ status[WebJob] = "failure"
  /\ WebUploaded("web-selfhosted", "zip")
  /\ ~WebUploaded("web-extension", "zip")

\* the web job ended in failure at "Push web demo"
DemoPushFailed ==
  /\ status[WebJob] = "failure"
  /\ mirrors["demo"].local # <<>>
  /\ mirrors["demo"].remote # mirrors["demo"].local

\* C12: a failed channel does not keep the other channels from being
\* attempted: after a failed web asset upload the demo mirror is still checked
\* out for its update, and after a failed demo push the docs mirror is.
C12_ChannelsIndependentUnderFailure ==
  /\ WebExtensionUploadFailed => mirrors["demo"].local # <<>>
  /\ DemoPushFailed => mirrors["js-docs"].local # <<>>

AurAttemptable ==
  /\ status[AurJob] # "skipped"
  /\ status[AurJob] = "pending" => ENABLED AurGetCurrentTimeDashes

\* C13 as stated: the package-index job never starts before all five legs
\* have completed, and once they have completed, with whatever result, it is
\* attempted whatever the state of the merger.
C13_AurAfterFanOutCompleted ==
  /\ Started(AurJob) => \A n \in BuildNames : status[n] \in Terminal
  /\ (\A n \in BuildNames : status[n] \in {"success", "failure"}) => AurAttemptable

\* C13 amended: the package-index job never starts before all five legs have
\* completed, and once all five have succeeded it is attempted whatever the
\* state of the merger (pending, running, succeeded or failed).
C13_AurAfterFanOutSucceeded ==
  /\ Started(AurJob) => \A n \in BuildNames : status[n] \in Terminal
  /\ (\A n \in BuildNames : status[n] = "success") => AurAttemptable

C13_Witness == status[AurJob] = "success" /\ status[MacJob] = "failure"

\* C14: a leg not reserved for merging uploads its archive as a release asset;
\* the macOS legs upload no release asset, only their raw binary as a workflow
\* artifact; the only macOS release asset is macos-universal.
C14_RoutingByMergeMembership ==
  /\ \A n \in NonMergedPlatforms :
       status[n] = "success" =>
         (n \notin artifacts /\ \E a \in assets : a.name = PackageFile(n))
  /\ \A n \in MacBinaries :
       /\ status[n] = "success" => n \in artifacts
       /\ \A a \in assets : a.name.platform # n
  /\ \A a \in assets :
       a.name.platform \in NonMergedPlatforms
         \cup {"macos-universal", "web-selfhosted", "web-extension", "web-extension-firefox"}
  /\ status[MacJob] = "success" => \E a \in assets : a.name = MacPackageFile

C14_Witness ==
  /\ \A n \in BuildNames : status[n] = "success"
  /\ status[MacJob] = "success"

AllSucceeded == \A j \in Jobs : status[j] = "success"

\* what the legs have produced: a packaged archive or a raw binary each
LegArtifacts ==
  {n \in BuildNames : n \in artifacts \/ \E a \in assets : a.name = PackageFile(n)}

MergedArtifacts == {a \in assets : a.name = MacPackageFile}

\* publish operations done: release assets, mirror pushes, package-index commits
PublishOperations ==
  Cardinality(assets)
    + Cardinality({r \in DOMAIN mirrors : mirrors[r].remote # InitialMirror})
    + Len(aur.commits)

\* C15 as stated: a run in which everything succeeds produces 5 artifacts
\* before the merge, 1 merged artifact, and 7 publish operations.
C15_SevenPublishOperations ==
  AllSucceeded =>
    /\ Cardinality(LegArtifacts) = 5
    /\ Cardinality(MergedArtifacts) = 1
    /\ PublishOperations = 7

\* C15 amended: a run in which everything succeeds produces 5 artifacts before
\* the merge, 1 merged artifact, and 10 publish operations: 7 release assets
\* (3 non-merged platforms, macos-universal, 3 web), 2 mirror pushes and 1
\* package-index commit.
C15_TenPublishOperations ==
  AllSucceeded =>
    /\ Cardinality(LegArtifacts) = 5
    /\ Cardinality(MergedArtifacts) = 1
    /\ Cardinality(assets) = 7
    /\ PublishOperations = 10

C15_Witness == AllSucceeded /\ Len(aur.commits) = 1

\* the asset names the upload steps of the workflow use
UploadNames ==
  {PackageFile(n) : n \in {m \in BuildNames : UploadPackageIf(m)}}
    \cup {MacPackageFile, WebAsset("web-selfhosted", "zip"), WebAsset("web-extension", "zip"),
          WebAsset("web-extension-firefox", "xpi")}

\* the asset names of the upload steps that are next in their jobs
NextUploads ==
  {PackageFile(n) : n \in {m \in BuildNames :
                             status[m] = "running" /\ pc[m] = "upload" /\ UploadPackageIf(m)}}
    \cup (IF AtStep(MacJob, "upload") THEN {MacPackageFile} ELSE {})
    \cup (IF AtStep(WebJob, "upload_selfhosted") THEN {WebAsset("web-selfhosted", "zip")} ELSE {})
    \cup (IF AtStep(WebJob, "upload_extension") THEN {WebAsset("web-extension", "zip")} ELSE {})
    \cup (IF AtStep(WebJob, "upload_firefox")
          THEN {WebAsset("web-extension-firefox", "xpi")} ELSE {})

\* C16: the asset names of the upload steps are pairwise distinct, and in
\* every interleaving no upload meets an asset of its own name on the release.
C16_AssetNamesNeverCollide ==
  /\ Cardinality(UploadNames) = 7
  /\ \A name \in NextUploads : name \notin AssetNames(Outputs.upload_url)
  /\ Cardinality({a.name : a \in assets}) = Cardinality(assets)

C16_Witness == Cardinality(assets) = 7 /\ Cardinality(AssetNames(Outputs.upload_url)) = 7

Windows == <<"w", "i", "n", "d", "o", "w", "s">>

\* C19: a leg's package file is <prefix>-<platform>.<ext> with ext zip exactly
\* for the platforms whose name starts with "windows" and tar.gz otherwise;
\* uploads send application/zip exactly with zip archives and
\* application/gzip exactly with tar.gz archives; the merged artifact is
\* macos-universal with tar.gz.
C19_PackageNamesAndContentTypes ==
  /\ \A n \in BuildNames :
       /\ PackageFile(n).platform = n
       /\ PackageFile(n).prefix = <<"ruffle-nightly-", dates.underscores>>
       /\ PackageFile(n).ext = (IF StartsWith(BuildNameChars(n), Windows) THEN "zip" ELSE "tar.gz")
  /\ MacPackageFile.platform = "macos-universal" /\ MacPackageFile.ext = "tar.gz"
  /\ \A a \in assets :
       a.name.platform \in BuildNames \cup {"macos-universal"} =>
         /\ a.name.ext = "zip" <=> a.content_type = "application/zip"
         /\ a.name.ext = "tar.gz" <=> a.content_type = "application/gzip"

C19_Witness ==
  /\ \E a \in assets : a.name.platform = "windows-x86_32" /\ a.content_type = "application/zip"
  /\ \E a \in assets : a.name.platform = "linux-x86_64" /\ a.content_type = "application/gzip"
  /\ \E a \in assets : a.name.platform = "macos-universal"


\* the runner takes up every job and step that can run
FairSpec == Spec /\ WF_vars(Next)

\* C20: every run terminates: every job eventually has a result (success,
\* failure or skipped), also when a leg fails or the gate is not alive.
C20_EveryRunTerminates == <>RunDone

C20_Witness ==
  /\ RunDone
  /\ \E n \in BuildNames : status[n] = "failure"
  /\ status[MacJob] = "skipped"
  /\ status[AurJob] = "skipped"


IsNightlyCommit(c) == c[1] = "Nightly build"

\* the updater has pushed to mirror r
Pushed(r) == mirrors[r].remote # preexisting[r]

\* C17 as stated: after the updater has run once or more, the branch has
\* exactly one commit beyond the history it had before.
C17_OneCommitBeyondPreexisting ==
  \A r \in DOMAIN mirrors :
    Pushed(r) => Len(mirrors[r].remote) = Len(preexisting[r]) + 1

\* C17 amended: however often the updater has run, the branch has as many
\* commits as before the first run: the commits below the tip are those it
\* had, and the tip it had is replaced by the one nightly commit of the last
\* run that pushed.
C17_AmendKeepsCommitCount ==
  \A r \in DOMAIN mirrors :
    LET h == mirrors[r].remote
        n == Len(preexisting[r])
    IN  /\ Len(h) = n
        /\ SubSeq(h, 1, n - 1) = SubSeq(preexisting[r], 1, n - 1)
        /\ Pushed(r) => IsNightlyCommit(h[n])
        /\ Cardinality({i \in 1 .. n : IsNightlyCommit(h[i])}) <= 1

\* the second run has pushed the demo mirror and is about to push the docs
\* mirror, which still carries the nightly commit of the first run
C17_Witness ==
  /\ run.number = 2
  /\ AtStep(WebJob, "push_docs")
  /\ mirrors["demo"].remote[Len(mirrors["demo"].remote)] = NightlyMessage
  /\ Pushed("js-docs")
  /\ mirrors["js-docs"].remote[Len(mirrors["js-docs"].remote)] # NightlyMessage

\* C18: a later run is not made to fail by what an earlier run left behind:
\* when it reaches "Create release" the release can be created, and when it
\* reaches an upload the asset can be uploaded.
C18_RerunIsSafe ==
  run.number > 1 =>
    /\ (AtStep(ReleaseJob, "create") /\ CreateReleaseIf)
         => ~TagExists(NightlyRelease.tag_name)
    /\ \A name \in NextUploads : name \notin AssetNames(Outputs.upload_url)


\* C21: the package-index job starts, and a package-index commit exists, only
\* in a run where all five legs of the build matrix have succeeded, and so
\* only where the release job succeeded with the gate alive.
C21_AurOnlyAfterAllBuildsSucceeded ==
  (Started(AurJob) \/ aur.commits # <<>>) =>
    /\ \A n \in BuildNames : status[n] = "success"
    /\ status[ReleaseJob] = "success"
    /\ Outputs.activity_check = "true"

\* the package index has received its commit after a complete build fan-out
C21_Witness ==
  /\ Len(aur.commits) = 1
  /\ status[AurJob] = "success"
  /\ \A n \in BuildNames : status[n] = "success"
  /\ Outputs.activity_check = "true"

\* a step of the web job
WebStep ==
  \/ BuildWeb
  \/ UploadSelfhosted
  \/ UploadGenericExtension
  \/ UploadFirefoxExtension
  \/ CloneWebDemo
  \/ UpdateWebDemo
  \/ PushWebDemo
  \/ CloneJSDocs
  \/ UpdateJSDocs
  \/ PushJSDocs

\* the next step of the web job can be taken and can succeed
WebCanProceed == ENABLED (WebStep /\ status'[WebJob] # "failure")

\* C22: once the release job has succeeded with the gate alive, the web job
\* is never skipped and, until it has a result, its next step can always be
\* taken and succeed, whatever the state of the build legs, the merger and
\* the package-index job.
C22_WebIndependentOfBuilds ==
  (status[ReleaseJob] = "success" /\ Outputs.activity_check = "true") =>
    /\ status[WebJob] # "skipped"
    /\ status[WebJob] \notin Terminal => WebCanProceed

\* the web job has published to all its channels although every build leg
\* failed and the merger was skipped
C22_Witness ==
  /\ status[WebJob] = "success"
  /\ \A n \in BuildNames : status[n] = "failure"
  /\ status[MacJob] = "skipped"
  /\ WebUploaded("web-selfhosted", "zip")
  /\ WebUploaded("web-extension", "zip")
  /\ WebUploaded("web-extension-firefox", "xpi")
  /\ \A r \in DOMAIN mirrors : Pushed(r)

====
